---- MODULE Spec2Model ----
(***************************************************************************)
(* Model of scripts/create_release.py: the ESP32 release packager.         *)
(*                                                                         *)
(* Text that the code inspects character by character (hex offsets, the    *)
(* custom release name, the version string, the answers typed at the       *)
(* prompts) is a sequence of one-character strings.  Text the code only    *)
(* copies or compares as a whole (flags, file paths) is a TLA+ string.     *)
(***************************************************************************)
EXTENDS Integers, Sequences, FiniteSets, TLC

VARIABLES
    pc,            \* position of the run
    raw,           \* flasher_args.json as json.load returned it
    flash_data,    \* the manifest the run works on (mutated in place)
    script,        \* flash.sh, a sequence of shell statements
    sh_pc,         \* flash.sh under execution: index of the next statement
    sh_env,        \* flash.sh under execution: the CONFIRM_* variables
    sh_status,     \* flash.sh under execution: idle / running / exit1 / flashed
    project_info,  \* what parse_project_description returned
    custom_name,   \* args.name
    release_name,  \* what generate_release_filename returned
    fs,            \* the build directory as the run finds it
    temp_dir,      \* the directory tempfile.mkdtemp made
    zip,           \* the archive at output_zip
    digest_calls,  \* calls of digest_sbv2_public_key so far
    error          \* the exception that ended the run, "" while there is none

vars == <<pc, raw, flash_data, script, sh_pc, sh_env, sh_status, project_info,
          custom_name, release_name, fs, temp_dir, zip, digest_calls, error>>

(***************************************************************************)
(* Bounds of the model.                                                    *)
(***************************************************************************)
MaxFiles == 2
MaxArgs == 2
MaxNamePieces == 3
MaxVersionPieces == 3

(***************************************************************************)
(* Generic helpers.                                                        *)
(***************************************************************************)
Range(s) == {s[i] : i \in 1..Len(s)}

Front(s) == SubSeq(s, 1, Len(s) - 1)

Count(s, x) == Cardinality({i \in 1..Len(s) : s[i] = x})

SeqsUpTo(S, n) == UNION {[1..k -> S] : k \in 0..n}

RECURSIVE Flatten(_)
Flatten(ss) == IF ss = <<>> THEN <<>> ELSE Head(ss) \o Flatten(Tail(ss))

(***************************************************************************)
(* int(x, 16): an optional 0x / 0X prefix, then hexadecimal digits.         *)
(***************************************************************************)
HexDigit(c) ==
    CASE c = "0" -> 0 [] c = "1" -> 1 [] c = "2" -> 2 [] c = "3" -> 3
      [] c = "4" -> 4 [] c = "5" -> 5 [] c = "6" -> 6 [] c = "7" -> 7
      [] c = "8" -> 8 [] c = "9" -> 9
      [] c \in {"a", "A"} -> 10 [] c \in {"b", "B"} -> 11
      [] c \in {"c", "C"} -> 12 [] c \in {"d", "D"} -> 13
      [] c \in {"e", "E"} -> 14 [] c \in {"f", "F"} -> 15

RECURSIVE HexDigits(_)
HexDigits(s) ==
    IF s = <<>> THEN 0 ELSE 16 * HexDigits(Front(s)) + HexDigit(s[Len(s)])

HexToInt(s) ==
    IF Len(s) >= 2 /\ s[1] = "0" /\ s[2] \in {"x", "X"}
    THEN HexDigits(SubSeq(s, 3, Len(s)))
    ELSE HexDigits(s)

(***************************************************************************)
(* The manifest.  A dict is a sequence of <<key, value>> pairs with        *)
(* distinct keys, in insertion order, as Python keeps it.  An optional     *)
(* section is a sequence of length 0 or 1.                                 *)
(***************************************************************************)
bootloader_offset == <<"0", "x", "0">>
bootloader_path == "bootloader/bootloader.bin"

DictKeys(d) == {d[i][1] : i \in 1..Len(d)}

DictGet(d, k) == d[CHOOSE i \in 1..Len(d) : d[i][1] = k][2]

\* d[k] = v: an existing key keeps its place, a new key goes last
DictSet(d, k, v) ==
    IF k \in DictKeys(d)
    THEN [i \in 1..Len(d) |-> IF d[i][1] = k THEN <<k, v>> ELSE d[i]]
    ELSE Append(d, <<k, v>>)

\* list.insert(0, x)
InsertFront(s, x) == <<x>> \o s

\* sorted(items, key=lambda x: int(x[0], 16)): ascending, stable
RECURSIVE InsertByOffset(_, _)
InsertByOffset(sorted, item) ==
    IF sorted = <<>> THEN <<item>>
    ELSE IF HexToInt(sorted[Len(sorted)][1]) <= HexToInt(item[1])
         THEN Append(sorted, item)
         ELSE Append(InsertByOffset(Front(sorted), item), sorted[Len(sorted)])

RECURSIVE SortedByOffset(_)
SortedByOffset(items) ==
    IF items = <<>> THEN <<>>
    ELSE InsertByOffset(SortedByOffset(Front(items)), items[Len(items)])

\* sorted(items) without the key: the offsets compared as text
CharCode(c) ==
    CASE c = "0" -> 48 [] c = "1" -> 49 [] c = "2" -> 50 [] c = "3" -> 51
      [] c = "4" -> 52 [] c = "5" -> 53 [] c = "6" -> 54 [] c = "7" -> 55
      [] c = "8" -> 56 [] c = "9" -> 57
      [] c = "A" -> 65 [] c = "B" -> 66 [] c = "C" -> 67 [] c = "D" -> 68
      [] c = "E" -> 69 [] c = "F" -> 70 [] c = "X" -> 88
      [] c = "a" -> 97 [] c = "b" -> 98 [] c = "c" -> 99 [] c = "d" -> 100
      [] c = "e" -> 101 [] c = "f" -> 102 [] c = "x" -> 120

RECURSIVE TextLeq(_, _)
TextLeq(a, b) ==
    IF a = <<>> THEN TRUE
    ELSE IF b = <<>> THEN FALSE
    ELSE IF Head(a) = Head(b) THEN TextLeq(Tail(a), Tail(b))
    ELSE CharCode(Head(a)) < CharCode(Head(b))

RECURSIVE InsertByText(_, _)
InsertByText(sorted, item) ==
    IF sorted = <<>> THEN <<item>>
    ELSE IF TextLeq(sorted[Len(sorted)][1], item[1])
         THEN Append(sorted, item)
         ELSE Append(InsertByText(Front(sorted), item), sorted[Len(sorted)])

RECURSIVE SortFlashFiles_ByText(_)
SortFlashFiles_ByText(items) ==
    IF items = <<>> THEN <<>>
    ELSE InsertByText(SortFlashFiles_ByText(Front(items)), items[Len(items)])

SortFlashFiles(items) == SortedByOffset(items)

\* data.get("app", {}).get("encrypted") == "true": only the string "true"
EncryptionRequired(data) == data.app_encrypted = "true"

\* "bootloader" not in data
SecureBootEnabled(data) == data.bootloader = <<>>

EncryptedText(data) == IF EncryptionRequired(data) THEN "true" ELSE "false"

AddForce(args) ==
    IF "--force" \notin Range(args) THEN InsertFront(args, "--force") ELSE args

AddEncrypt_Always(args) == Append(args, "--encrypt")

AddEncrypt(args) ==
    IF "--encrypt" \notin Range(args) THEN Append(args, "--encrypt") ELSE args

InjectBootloader_NoFlashEntry(data) ==
    [data EXCEPT
        !.bootloader = <<[offset |-> bootloader_offset, file |-> bootloader_path,
                          encrypted |-> EncryptedText(data)]>>,
        !.write_flash_args = AddForce(data.write_flash_args)]

\* lines 52-75: the Secure Boot branch and its else
InjectBootloader(data) ==
    IF SecureBootEnabled(data)
    THEN [data EXCEPT
            !.bootloader = <<[offset |-> bootloader_offset, file |-> bootloader_path,
                              encrypted |-> EncryptedText(data)]>>,
            !.flash_files = DictSet(data.flash_files, bootloader_offset, bootloader_path),
            !.write_flash_args = AddForce(data.write_flash_args)]
    ELSE [data EXCEPT
            !.bootloader = <<[data.bootloader[1] EXCEPT !.encrypted = EncryptedText(data)]>>]

\* lines 43-94, on the manifest json.load returned
parse_flasher_args(data) ==
    LET d1 == InjectBootloader(data)
        d2 == [d1 EXCEPT !.security = [secure_boot |-> SecureBootEnabled(data),
                                       encryption |-> EncryptionRequired(data),
                                       digest_file |-> d1.security.digest_file]]
        d3 == IF EncryptionRequired(data)
              THEN [d2 EXCEPT !.write_flash_args = AddEncrypt(d2.write_flash_args)]
              ELSE d2
    IN [d3 EXCEPT !.flash_files = SortFlashFiles(d3.flash_files)]

(***************************************************************************)
(* create_flash_script.  flash.sh is a sequence of statements; the esptool *)
(* command is kept as the words the shell passes (an empty {no_stub} or    *)
(* {secure_boot_force_flag} leaves no word) followed by the offset / file  *)
(* pairs, one per continuation line.                                       *)
(***************************************************************************)
Stmt(kind, var) == [kind |-> kind, var |-> var, args |-> <<>>, files |-> <<>>]

Echo == Stmt("echo", "")

ScriptHeader == <<Stmt("assign", "PORT"), Stmt("assign", "BAUD"), Echo>>

\* lines 164-175 and 179-190: five echo lines, read -p, if [[ ! $VAR =~ ^[Yy]$ ]]
PromptBlock(var) ==
    <<Echo, Echo, Echo, Echo, Echo, Stmt("read", var), Stmt("confirm", var)>>

RequiredExtraKeys == {"before", "after", "chip"}
RequiredFlashSettings == {"flash_mode", "flash_freq", "flash_size"}

\* the f-string of lines 192-193 raises KeyError on a missing key
ScriptKeysPresent(data) ==
    /\ RequiredExtraKeys \subseteq DictKeys(data.extra_esptool_args)
    /\ RequiredFlashSettings \subseteq DictKeys(data.flash_settings)

\* extra_esptool_args.get("stub", True) is True
StubIsTrue(data) ==
    \/ "stub" \notin DictKeys(data.extra_esptool_args)
    \/ DictGet(data.extra_esptool_args, "stub") = "True"

EsptoolCommand(data) ==
    LET extra == data.extra_esptool_args
        settings == data.flash_settings
        no_stub == IF StubIsTrue(data) THEN <<>> ELSE <<"--no-stub">>
        secure_boot_force_flag == IF data.security.secure_boot THEN <<"--force">> ELSE <<>>
    IN [kind |-> "esptool", var |-> "",
        args |-> <<"esptool.py", "-p", "$PORT", "-b", "$BAUD",
                   "--before", DictGet(extra, "before"),
                   "--after", DictGet(extra, "after")>>
                 \o no_stub
                 \o <<"--chip", DictGet(extra, "chip"), "write_flash",
                      "--flash_mode", DictGet(settings, "flash_mode"),
                      "--flash_freq", DictGet(settings, "flash_freq"),
                      "--flash_size", DictGet(settings, "flash_size")>>
                 \o secure_boot_force_flag,
        files |-> data.flash_files]

SecureBootBlock(data) ==
    IF data.security.secure_boot THEN PromptBlock("CONFIRM_SECURE_BOOT") ELSE <<>>

EncryptionBlock(data) ==
    IF data.security.encryption THEN PromptBlock("CONFIRM_ENCRYPT") ELSE <<>>

\* lines 154-199, for a manifest that has the required keys
create_flash_script(data) ==
    ScriptHeader \o SecureBootBlock(data) \o EncryptionBlock(data) \o <<EsptoolCommand(data)>>

MatchesYes_Unanchored(answer) == Len(answer) >= 1 /\ answer[1] \in {"Y", "y"}

\* [[ $VAR =~ ^[Yy]$ ]]
MatchesYes(answer) == Len(answer) = 1 /\ answer[1] \in {"Y", "y"}

(***************************************************************************)
(* parse_project_description and generate_release_filename.                *)
(***************************************************************************)
IsSpace(c) == c \in {" ", "\t", "\n"}

RECURSIVE LStrip(_)
LStrip(s) == IF s # <<>> /\ IsSpace(Head(s)) THEN LStrip(Tail(s)) ELSE s

RECURSIVE RStrip(_)
RStrip(s) == IF s # <<>> /\ IsSpace(s[Len(s)]) THEN RStrip(Front(s)) ELSE s

\* str.strip()
Strip(s) == RStrip(LStrip(s))

EndsWith(s, suffix) ==
    /\ Len(s) >= Len(suffix)
    /\ SubSeq(s, Len(s) - Len(suffix) + 1, Len(s)) = suffix

ReplaceEachSpace(s) == [i \in 1..Len(s) |-> IF IsSpace(s[i]) THEN "_" ELSE s[i]]

\* re.sub(r"[\s]+", "_", s): every maximal run of whitespace becomes one "_"
RECURSIVE SubSpaces(_)
SubSpaces(s) ==
    IF s = <<>> THEN <<>>
    ELSE IF IsSpace(Head(s)) THEN <<"_">> \o SubSpaces(LStrip(s))
    ELSE <<Head(s)>> \o SubSpaces(Tail(s))

DirtySuffix == <<"-", "d", "i", "r", "t", "y">>

SubDirty_None(s) == s

\* re.sub(r"-dirty$", "", s): $ matches at the end and before a final newline
SubDirty(s) ==
    IF EndsWith(s, DirtySuffix) THEN SubSeq(s, 1, Len(s) - Len(DirtySuffix))
    ELSE IF EndsWith(s, DirtySuffix \o <<"\n">>)
         THEN SubSeq(s, 1, Len(s) - Len(DirtySuffix) - 1) \o <<"\n">>
         ELSE s

Underscore == <<"_">>
DotZip == <<".", "z", "i", "p">>
Latest == <<"l", "a", "t", "e", "s", "t">>
UnknownProjectName == <<"u", "n", "k", "n", "o", "w", "n", "_", "p", "r", "o", "j", "e", "c", "t">>
DefaultVersion == <<"0", ".", "0", ".", "0">>

\* lines 106-109: a missing key of project_description.json takes its default
parse_project_description(desc) ==
    [project_name |-> IF desc.project_name = <<>> THEN UnknownProjectName
                      ELSE desc.project_name[1],
     project_version |-> IF desc.project_version = <<>> THEN DefaultVersion
                         ELSE desc.project_version[1]]

SanitizeName_EachSpace(name) == ReplaceEachSpace(name)

\* line 245
SanitizeName(name) == SubSpaces(Strip(name))

\* lines 248-252
FinalVersion(version) ==
    LET cleaned_version == SubDirty(Strip(version))
    IN IF cleaned_version # <<>> THEN cleaned_version ELSE Latest

\* lines 242-254; custom is <<>> for None and <<name>> for a given --name
generate_release_filename(info, custom) ==
    IF custom # <<>> /\ custom[1] # <<>>
    THEN info.project_name \o Underscore \o SanitizeName(custom[1]) \o DotZip
    ELSE info.project_name \o Underscore \o FinalVersion(info.project_version) \o DotZip

(***************************************************************************)
(* The inputs the model draws from.                                        *)
(***************************************************************************)
Key0 == <<"0", "x", "0">>
Key00 == <<"0", "x", "0", "0">>
Key8000 == <<"0", "x", "8", "0", "0", "0">>
KeyD000 == <<"0", "x", "d", "0", "0", "0">>
Key10000 == <<"0", "x", "1", "0", "0", "0", "0">>

OffsetKeys == {Key0, Key00, Key8000, KeyD000, Key10000}

FileAt(k) ==
    CASE k = Key0 -> "stage0.bin"
      [] k = Key00 -> "boot_copy.bin"
      [] k = Key8000 -> "partition_table/partition-table.bin"
      [] k = KeyD000 -> "ota_data_initial.bin"
      [] k = Key10000 -> "app.bin"

BinaryPaths == {FileAt(k) : k \in OffsetKeys} \cup {bootloader_path}

\* flash_files: up to MaxFiles entries with distinct keys, in any order
FlashFileDicts ==
    {[i \in DOMAIN ks |-> <<ks[i], FileAt(ks[i])>>] :
        ks \in {s \in SeqsUpTo(OffsetKeys, MaxFiles) :
                   \A i, j \in DOMAIN s : i # j => s[i] # s[j]}}

ArgWords == {"--force", "--encrypt", "--flash_mode"}

WriteFlashArgLists == SeqsUpTo(ArgWords, MaxArgs)

\* app.encrypted: the strings "true" and "false", the JSON literal true, no key
EncryptedValues == {"true", "false", "<json true>", "<no key>"}

BootloaderSections ==
    {<<>>, <<[offset |-> <<"0", "x", "1", "0", "0", "0">>, file |-> bootloader_path,
              encrypted |-> "false"]>>}

NoSecurity == [secure_boot |-> FALSE, encryption |-> FALSE, digest_file |-> ""]
StaleSecurity == [secure_boot |-> TRUE, encryption |-> TRUE, digest_file |-> ""]

FullFlashSettings ==
    <<<<"flash_mode", "dio">>, <<"flash_size", "4MB">>, <<"flash_freq", "40m">>>>

FullExtraArgs ==
    <<<<"after", "hard_reset">>, <<"before", "default_reset">>,
      <<"stub", "True">>, <<"chip", "esp32">>>>

NoStubExtraArgs ==
    <<<<"after", "hard_reset">>, <<"before", "default_reset">>,
      <<"stub", "False">>, <<"chip", "esp32">>>>

NoChipExtraArgs == <<<<"after", "hard_reset">>, <<"before", "default_reset">>>>

Manifest(boot, enc, wfa, ff, sec, extra) ==
    [bootloader |-> boot, app_encrypted |-> enc, write_flash_args |-> wfa,
     flash_files |-> ff, security |-> sec, extra_esptool_args |-> extra,
     flash_settings |-> FullFlashSettings]

Manifests ==
    {Manifest(boot, enc, wfa, ff, sec, extra) :
        boot \in BootloaderSections, enc \in EncryptedValues,
        wfa \in WriteFlashArgLists, ff \in FlashFileDicts,
        sec \in {NoSecurity, StaleSecurity},
        extra \in {NoStubExtraArgs, NoChipExtraArgs}}

TypicalFlashFiles ==
    <<<<Key8000, FileAt(Key8000)>>, <<Key10000, FileAt(Key10000)>>>>

ScriptManifests ==
    {Manifest(boot, enc, wfa, TypicalFlashFiles, NoSecurity, extra) :
        boot \in BootloaderSections, enc \in EncryptedValues,
        wfa \in {<<>>, <<"--flash_mode">>},
        extra \in {FullExtraArgs, NoChipExtraArgs}}

NamePieces == {<<" ">>, <<"\t">>, <<"r", "c">>, <<"_">>}

\* args.name: None, or a text of up to MaxNamePieces pieces
CustomNames ==
    {<<>>} \cup {<<Flatten(ps)>> : ps \in SeqsUpTo(NamePieces, MaxNamePieces)}

VersionPieces == {<<"v", "1">>, DirtySuffix, <<" ">>, <<"-", "d", "i", "r", "t">>}

Versions == {Flatten(ps) : ps \in SeqsUpTo(VersionPieces, MaxVersionPieces)}

ProjectNames == {<<"a", "p", "p">>}

\* project_description.json: each key present or not
Descriptions ==
    {[project_name |-> n, project_version |-> v] :
        n \in {<<>>} \cup {<<x>> : x \in ProjectNames},
        v \in {<<>>} \cup {<<x>> : x \in Versions}}

Answers == {<<"y">>, <<"Y">>, <<"n">>, <<>>, <<"y", "e", "s">>}

ConfirmVars == {"CONFIRM_SECURE_BOOT", "CONFIRM_ENCRYPT"}

(***************************************************************************)
(* Values of the variables a specification does not use.                   *)
(***************************************************************************)
BlankManifest ==
    Manifest(<<>>, "<no key>", <<>>, <<>>, NoSecurity, FullExtraArgs)

BlankInfo == [project_name |-> <<>>, project_version |-> <<>>]

BlankFs ==
    [build_dir |-> TRUE, flasher_args |-> TRUE, project_description |-> <<>>,
     binaries |-> {}]

NoScriptYet ==
    /\ script = <<>>
    /\ sh_pc = 0
    /\ sh_env = [v \in ConfirmVars |-> <<>>]
    /\ sh_status = "idle"

NoRunYet ==
    /\ temp_dir = [created |-> FALSE, exists |-> FALSE, files |-> {}]
    /\ zip = [exists |-> FALSE, members |-> <<>>]
    /\ digest_calls = 0
    /\ error = ""

NoNameYet ==
    /\ project_info = BlankInfo
    /\ custom_name = <<>>
    /\ release_name = <<>>

(***************************************************************************)
(* The manifest transformer and the script renderer on their own.          *)
(***************************************************************************)
InitTransform ==
    /\ pc = "loaded"
    /\ raw \in Manifests
    /\ flash_data = raw
    /\ fs = BlankFs
    /\ NoScriptYet /\ NoRunYet /\ NoNameYet

CallParseFlasherArgs ==
    /\ pc = "loaded"
    /\ flash_data' = parse_flasher_args(raw)
    /\ pc' = "parsed"
    /\ UNCHANGED <<raw, script, sh_pc, sh_env, sh_status, project_info, custom_name,
                   release_name, fs, temp_dir, zip, digest_calls, error>>

CallCreateFlashScript ==
    /\ pc = "parsed"
    /\ IF ScriptKeysPresent(flash_data)
       THEN /\ script' = create_flash_script(flash_data)
            /\ pc' = "rendered"
            /\ error' = error
       ELSE /\ script' = script
            /\ pc' = "failed"
            /\ error' = "KeyError"
    /\ UNCHANGED <<raw, flash_data, sh_pc, sh_env, sh_status, project_info,
                   custom_name, release_name, fs, temp_dir, zip, digest_calls>>

NextTransform == CallParseFlasherArgs \/ CallCreateFlashScript

SpecTransform == InitTransform /\ [][NextTransform]_vars

(***************************************************************************)
(* flash.sh under execution.                                               *)
(***************************************************************************)
InitScript ==
    /\ pc = "loaded"
    /\ raw \in ScriptManifests
    /\ flash_data = raw
    /\ fs = BlankFs
    /\ NoScriptYet /\ NoRunYet /\ NoNameYet

ShUnchanged ==
    UNCHANGED <<pc, raw, flash_data, script, project_info, custom_name, release_name,
                fs, temp_dir, zip, digest_calls, error>>

ShStart ==
    /\ pc = "rendered"
    /\ sh_status = "idle"
    /\ sh_status' = "running"
    /\ sh_pc' = 1
    /\ sh_env' = sh_env
    /\ ShUnchanged

ShAt(kind) == sh_status = "running" /\ sh_pc <= Len(script) /\ script[sh_pc].kind = kind

\* an assignment or an echo
ShPlain ==
    /\ ShAt("assign") \/ ShAt("echo")
    /\ sh_pc' = sh_pc + 1
    /\ UNCHANGED <<sh_env, sh_status>>
    /\ ShUnchanged

\* read -p "..." VAR
ShRead ==
    /\ ShAt("read")
    /\ \E answer \in Answers : sh_env' = [sh_env EXCEPT ![script[sh_pc].var] = answer]
    /\ sh_pc' = sh_pc + 1
    /\ sh_status' = sh_status
    /\ ShUnchanged

\* if [[ ! $VAR =~ ^[Yy]$ ]]; then echo ...; exit 1; fi
ShConfirm ==
    /\ ShAt("confirm")
    /\ IF MatchesYes(sh_env[script[sh_pc].var])
       THEN sh_pc' = sh_pc + 1 /\ sh_status' = sh_status
       ELSE sh_pc' = sh_pc /\ sh_status' = "exit1"
    /\ sh_env' = sh_env
    /\ ShUnchanged

\* esptool.py ... write_flash ...: the last statement
ShEsptool ==
    /\ ShAt("esptool")
    /\ sh_pc' = sh_pc + 1
    /\ sh_status' = "flashed"
    /\ sh_env' = sh_env
    /\ ShUnchanged

NextScript ==
    \/ CallParseFlasherArgs \/ CallCreateFlashScript
    \/ ShStart \/ ShPlain \/ ShRead \/ ShConfirm \/ ShEsptool

SpecScript == InitScript /\ [][NextScript]_vars

(***************************************************************************)
(* generate_release_filename on its own.                                   *)
(***************************************************************************)
InitName ==
    /\ pc = "described"
    /\ raw = BlankManifest
    /\ flash_data = raw
    /\ fs = BlankFs
    /\ project_info \in {parse_project_description(d) : d \in Descriptions}
    /\ custom_name \in CustomNames
    /\ release_name = <<>>
    /\ NoScriptYet /\ NoRunYet

CallGenerateReleaseFilename ==
    /\ pc = "described"
    /\ release_name' = generate_release_filename(project_info, custom_name)
    /\ pc' = "named"
    /\ UNCHANGED <<raw, flash_data, script, sh_pc, sh_env, sh_status, project_info,
                   custom_name, fs, temp_dir, zip, digest_calls, error>>

NextName == CallGenerateReleaseFilename

SpecName == InitName /\ [][NextName]_vars

(***************************************************************************)
(* main: one run of the packager, step by step.  An exception ends the run *)
(* where it is raised: main has no try / finally.                          *)
(***************************************************************************)
MainManifests ==
    {Manifest(boot, enc, <<>>, TypicalFlashFiles, NoSecurity, extra) :
        boot \in BootloaderSections, enc \in {"true", "false"},
        extra \in {FullExtraArgs, NoChipExtraArgs}}

MainDescription == [project_name |-> <<<<"a", "p", "p">>>>, project_version |-> <<<<"v", "1">>>>]

MainBinaries == {bootloader_path, FileAt(Key8000), FileAt(Key10000)}

BuildDirs ==
    [build_dir : BOOLEAN, flasher_args : BOOLEAN,
     project_description : {<<>>, <<MainDescription>>},
     binaries : SUBSET MainBinaries]

InitMain ==
    /\ pc = "start"
    /\ raw \in MainManifests
    /\ flash_data = raw
    /\ fs \in BuildDirs
    /\ project_info = BlankInfo
    /\ custom_name \in {<<>>, <<<<"r", "c">>>>}
    /\ release_name = <<>>
    /\ NoScriptYet /\ NoRunYet

Raise(exception) ==
    /\ error' = exception
    /\ pc' = "aborted"

\* lines 263-270
MainStart ==
    /\ pc = "start"
    /\ IF fs.build_dir THEN pc' = "mkdtemp" /\ error' = error
       ELSE Raise("FileNotFoundError: build directory")
    /\ UNCHANGED <<raw, flash_data, script, sh_pc, sh_env, sh_status, project_info,
                   custom_name, release_name, fs, temp_dir, zip, digest_calls>>

\* line 272
MainMkdtemp ==
    /\ pc = "mkdtemp"
    /\ temp_dir' = [created |-> TRUE, exists |-> TRUE, files |-> {}]
    /\ pc' = "parse_flasher_args"
    /\ UNCHANGED <<raw, flash_data, script, sh_pc, sh_env, sh_status, project_info,
                   custom_name, release_name, fs, zip, digest_calls, error>>

\* line 275, with the check of lines 37-38
MainParseFlasherArgs ==
    /\ pc = "parse_flasher_args"
    /\ IF fs.flasher_args
       THEN /\ flash_data' = parse_flasher_args(raw)
            /\ pc' = "parse_project_description"
            /\ error' = error
       ELSE /\ flash_data' = flash_data
            /\ Raise("FileNotFoundError: flasher_args.json")
    /\ UNCHANGED <<raw, script, sh_pc, sh_env, sh_status, project_info, custom_name,
                   release_name, fs, temp_dir, zip, digest_calls>>

\* line 276, with the check of lines 100-101
MainParseProjectDescription ==
    /\ pc = "parse_project_description"
    /\ IF fs.project_description # <<>>
       THEN /\ project_info' = parse_project_description(fs.project_description[1])
            /\ pc' = "generate_release_filename"
            /\ error' = error
       ELSE /\ project_info' = project_info
            /\ Raise("FileNotFoundError: project_description.json")
    /\ UNCHANGED <<raw, flash_data, script, sh_pc, sh_env, sh_status, custom_name,
                   release_name, fs, temp_dir, zip, digest_calls>>

\* line 279
MainGenerateReleaseFilename ==
    /\ pc = "generate_release_filename"
    /\ release_name' = generate_release_filename(project_info, custom_name)
    /\ pc' = "create_flash_script"
    /\ UNCHANGED <<raw, flash_data, script, sh_pc, sh_env, sh_status, project_info,
                   custom_name, fs, temp_dir, zip, digest_calls, error>>

\* lines 281-285: flash.sh is written into the temporary directory
MainCreateFlashScript ==
    /\ pc = "create_flash_script"
    /\ IF ScriptKeysPresent(flash_data)
       THEN /\ script' = create_flash_script(flash_data)
            /\ temp_dir' = [temp_dir EXCEPT !.files = @ \cup {"flash.sh"}]
            /\ pc' = "generate_secure_boot_digest"
            /\ error' = error
       ELSE /\ UNCHANGED <<script, temp_dir>>
            /\ Raise("KeyError")
    /\ UNCHANGED <<raw, flash_data, sh_pc, sh_env, sh_status, project_info,
                   custom_name, release_name, fs, zip, digest_calls>>

MainGenerateSecureBootDigest_Swallow ==
    /\ pc = "generate_secure_boot_digest"
    /\ IF flash_data.security.secure_boot
       THEN \E ok \in BOOLEAN :
              /\ digest_calls' = digest_calls + 1
              /\ IF ok
                 THEN /\ temp_dir' = [temp_dir EXCEPT !.files = @ \cup {"digest.bin"}]
                      /\ flash_data' = [flash_data EXCEPT !.security.digest_file = "digest.bin"]
                      /\ error' = error
                 ELSE /\ UNCHANGED <<temp_dir, flash_data>>
                      /\ error' = "RuntimeError: digest"
       ELSE UNCHANGED <<temp_dir, flash_data, digest_calls, error>>
    /\ pc' = "create_zip_package"
    /\ UNCHANGED <<raw, script, sh_pc, sh_env, sh_status, project_info, custom_name,
                   release_name, fs, zip>>

\* lines 288-289: generate_secure_boot_digest when Secure Boot is on; the digest
\* routine of the signing library either writes digest.bin or raises
MainGenerateSecureBootDigest ==
    /\ pc = "generate_secure_boot_digest"
    /\ IF flash_data.security.secure_boot
       THEN \E ok \in BOOLEAN :
              /\ digest_calls' = digest_calls + 1
              /\ IF ok
                 THEN /\ temp_dir' = [temp_dir EXCEPT !.files = @ \cup {"digest.bin"}]
                      /\ flash_data' = [flash_data EXCEPT !.security.digest_file = "digest.bin"]
                      /\ pc' = "create_zip_package"
                      /\ error' = error
                 ELSE /\ UNCHANGED <<temp_dir, flash_data>>
                      /\ Raise("RuntimeError: digest")
       ELSE /\ UNCHANGED <<temp_dir, flash_data, digest_calls, error>>
            /\ pc' = "create_zip_package"
    /\ UNCHANGED <<raw, script, sh_pc, sh_env, sh_status, project_info, custom_name,
                   release_name, fs, zip>>

Member(src, name) == [src |-> src, name |-> name]

RECURSIVE BinaryMembers(_, _)
BinaryMembers(files, present) ==
    IF files = <<>> THEN <<>>
    ELSE (IF Head(files)[2] \in present THEN <<Member("build", Head(files)[2])>> ELSE <<>>)
         \o BinaryMembers(Tail(files), present)

ZipMembers_NoDigest(data, present) ==
    <<Member("temp", "flasher_args.json"), Member("temp", "flash.sh")>>
    \o BinaryMembers(data.flash_files, present)

\* lines 219-230: what the archive holds when every write succeeds
ZipMembers(data, present) ==
    <<Member("temp", "flasher_args.json"), Member("temp", "flash.sh")>>
    \o (IF data.security.secure_boot THEN <<Member("temp", "digest.bin")>> ELSE <<>>)
    \o BinaryMembers(data.flash_files, present)

\* line 292: create_zip_package; a write that fails leaves the members written so far
MainCreateZipPackage ==
    /\ pc = "create_zip_package"
    /\ LET members == ZipMembers(flash_data, fs.binaries)
       IN \E n \in 0..Len(members) :
            /\ zip' = [exists |-> TRUE, members |-> SubSeq(members, 1, n)]
            /\ IF n = Len(members)
               THEN pc' = "rmtree" /\ error' = error
               ELSE Raise("OSError: zip write")
    /\ temp_dir' = [temp_dir EXCEPT !.files = @ \cup {"flasher_args.json"}]
    /\ UNCHANGED <<raw, flash_data, script, sh_pc, sh_env, sh_status, project_info,
                   custom_name, release_name, fs, digest_calls>>

\* lines 294-295
MainRmtree ==
    /\ pc = "rmtree"
    /\ temp_dir' = [temp_dir EXCEPT !.exists = FALSE, !.files = {}]
    /\ pc' = "done"
    /\ UNCHANGED <<raw, flash_data, script, sh_pc, sh_env, sh_status, project_info,
                   custom_name, release_name, fs, zip, digest_calls, error>>

NextMain ==
    \/ MainStart \/ MainMkdtemp \/ MainParseFlasherArgs \/ MainParseProjectDescription
    \/ MainGenerateReleaseFilename \/ MainCreateFlashScript
    \/ MainGenerateSecureBootDigest \/ MainCreateZipPackage \/ MainRmtree

SpecMain == InitMain /\ [][NextMain]_vars

(***************************************************************************)
(* The claims.                                                             *)
(***************************************************************************)
Parsed == pc \in {"parsed", "rendered", "failed"}

Pairs(d) == {d[i] : i \in 1..Len(d)}

Values(d) == {d[i][2] : i \in 1..Len(d)}

\* C1: a manifest without a bootloader section comes back with a bootloader
\* section at offset "0x0", flash_files["0x0"] the bootloader binary and
\* security.secure_boot true; a manifest with a bootloader section comes back
\* with security.secure_boot false and the flash_files entries it had.
C1_BootloaderInjected ==
    Parsed =>
        IF raw.bootloader = <<>>
        THEN /\ Len(flash_data.bootloader) = 1
             /\ flash_data.bootloader[1].offset = <<"0", "x", "0">>
             /\ <<<<"0", "x", "0">>, "bootloader/bootloader.bin">> \in Pairs(flash_data.flash_files)
             /\ flash_data.security.secure_boot = TRUE
        ELSE /\ flash_data.security.secure_boot = FALSE
             /\ Pairs(flash_data.flash_files) = Pairs(raw.flash_files)
             /\ Len(flash_data.flash_files) = Len(raw.flash_files)

C1_Witness ==
    /\ pc = "parsed"
    /\ raw.bootloader = <<>>
    /\ raw.flash_files # <<>>
    /\ <<"0", "x", "0">> \notin DictKeys(raw.flash_files)
    /\ raw.security.secure_boot = FALSE
    /\ flash_data.security.secure_boot = TRUE

\* C2 as stated: with app.encrypted "true", the returned write_flash_args holds
\* "--encrypt" exactly once, whatever the list was before.
C2_EncryptExactlyOnce ==
    (Parsed /\ raw.app_encrypted = "true") =>
        Count(flash_data.write_flash_args, "--encrypt") = 1

\* C2 amended: with app.encrypted the string "true", the returned
\* write_flash_args holds "--encrypt" once when the list held it at most once,
\* and as often as the list held it otherwise: none is added to a list that has one.
C2_EncryptOnceUnlessRepeated ==
    (Parsed /\ raw.app_encrypted = "true") =>
        LET before == Count(raw.write_flash_args, "--encrypt")
            after == Count(flash_data.write_flash_args, "--encrypt")
        IN IF before <= 1 THEN after = 1 ELSE after = before

C2_Witness ==
    /\ pc = "parsed"
    /\ raw.app_encrypted = "true"
    /\ raw.bootloader = <<>>
    /\ raw.write_flash_args = <<"--flash_mode", "--encrypt">>
    /\ flash_data.write_flash_args = <<"--force", "--flash_mode", "--encrypt">>

Offset(item) == HexToInt(item[1])

\* what flash_files holds before the sort: the input's pairs, with the pair at
\* "0x0" set to the bootloader binary when the bootloader section was missing
ExpectedPairs ==
    IF raw.bootloader = <<>>
    THEN {p \in Pairs(raw.flash_files) : p[1] # <<"0", "x", "0">>}
         \cup {<<<<"0", "x", "0">>, "bootloader/bootloader.bin">>}
    ELSE Pairs(raw.flash_files)

SamePairs ==
    /\ Pairs(flash_data.flash_files) = ExpectedPairs
    /\ Len(flash_data.flash_files) = Cardinality(ExpectedPairs)

InjectedFirst ==
    raw.bootloader = <<>> =>
        flash_data.flash_files[1] = <<<<"0", "x", "0">>, "bootloader/bootloader.bin">>

C9_ScriptCarriesManifestFlags ==
    pc = "rendered" =>
        LET command == script[Len(script)]
        IN /\ command.kind = "esptool"
           /\ \A flag \in {"--force", "--encrypt"} :
                 flag \in Range(command.args) <=> flag \in Range(flash_data.write_flash_args)
           /\ command.files = flash_data.flash_files

Reads(var) == {i \in 1..Len(script) : script[i].kind = "read" /\ script[i].var = var}

Commands == {i \in 1..Len(script) : script[i].kind = "esptool"}

SaidYes(var) == sh_env[var] \in {<<"y">>, <<"Y">>}

\* C10: flash.sh has a Secure Boot prompt exactly when security.secure_boot is
\* true and an Encryption prompt exactly when security.encryption is true; each
\* prompt and its test come before the esptool command; the command has run only
\* if every prompt present was answered y or Y, and past a prompt's test the
\* answer was y or Y.
C10_PromptsGuardFlash ==
    pc = "rendered" =>
        /\ Reads("CONFIRM_SECURE_BOOT") # {} <=> flash_data.security.secure_boot
        /\ Reads("CONFIRM_ENCRYPT") # {} <=> flash_data.security.encryption
        /\ Cardinality(Commands) = 1
        /\ \A var \in ConfirmVars : \A i \in Reads(var) :
              /\ script[i + 1] = Stmt("confirm", var)
              /\ \A c \in Commands : i + 1 < c
              /\ (sh_status # "idle" /\ sh_pc > i + 1) => SaidYes(var)
              /\ sh_status = "flashed" => SaidYes(var)
        /\ sh_status = "exit1" => \A c \in Commands : sh_pc < c

C10_Witness ==
    /\ sh_status = "exit1"
    /\ flash_data.security.secure_boot
    /\ flash_data.security.encryption
    /\ sh_env["CONFIRM_SECURE_BOOT"] = <<"Y">>
    /\ sh_env["CONFIRM_ENCRYPT"] = <<"y", "e", "s">>

CustomGiven == custom_name # <<>> /\ custom_name[1] # <<>>

NamePrefix == project_info.project_name \o <<"_">>

\* "_".join(text.split()): the words of the text, joined by underscores
RECURSIVE WordsOf(_, _)
WordsOf(text, word) ==
    IF text = <<>> THEN (IF word = <<>> THEN <<>> ELSE <<word>>)
    ELSE IF Head(text) \in {" ", "\t", "\n"}
         THEN (IF word = <<>> THEN <<>> ELSE <<word>>) \o WordsOf(Tail(text), <<>>)
         ELSE WordsOf(Tail(text), Append(word, Head(text)))

RECURSIVE JoinWords(_)
JoinWords(words) ==
    IF words = <<>> THEN <<>>
    ELSE IF Len(words) = 1 THEN words[1]
    ELSE words[1] \o <<"_">> \o JoinWords(Tail(words))

Dirty == <<"-", "d", "i", "r", "t", "y">>

DirtyZip == Dirty \o <<".", "z", "i", "p">>

IsSuffix(suffix, text) == \E head \in {SubSeq(text, 1, n) : n \in 0..Len(text)} : text = head \o suffix

Solid(text) == {i \in 1..Len(text) : text[i] \notin {" ", "\t", "\n"}}

Least(S) == CHOOSE i \in S : \A j \in S : i <= j

Greatest(S) == CHOOSE i \in S : \A j \in S : j <= i

\* the text between its first and its last character that is not whitespace
Trimmed(text) ==
    IF Solid(text) = {} THEN <<>>
    ELSE SubSeq(text, Least(Solid(text)), Greatest(Solid(text)))

Ended == pc \in {"done", "aborted"}

\* C4: a run that made the temporary directory has removed it when it ends,
\* whether it ends in success or in an exception.
C4_TempDirRemoved == (Ended /\ temp_dir.created) => ~temp_dir.exists

DigestFailed == error = "RuntimeError: digest"

ManifestFileMissing == ~fs.flasher_args \/ fs.project_description = <<>>

\* C5: when flasher_args.json or project_description.json is missing, or the
\* digest call fails, no archive is ever written: the run is aborted at that
\* step, create_zip_package is not reached and the digest call was made once.
C5_NoZipAfterEarlyFailure ==
    /\ digest_calls <= 1
    /\ (ManifestFileMissing \/ DigestFailed) =>
          /\ ~zip.exists
          /\ pc \notin {"create_zip_package", "rmtree", "done"}
    /\ ~fs.flasher_args =>
          pc \in {"start", "mkdtemp", "parse_flasher_args", "aborted"}
    /\ (fs.flasher_args /\ fs.project_description = <<>>) =>
          pc \in {"start", "mkdtemp", "parse_flasher_args", "parse_project_description",
                  "aborted"}
    /\ DigestFailed => pc = "aborted" /\ digest_calls = 1

C5_Witness ==
    /\ pc = "aborted"
    /\ DigestFailed
    /\ flash_data.security.secure_boot
    /\ ~ManifestFileMissing

MemberNames == {zip.members[i].name : i \in 1..Len(zip.members)}

\* C6 as stated: after a successful run the archive holds flasher_args.json,
\* flash.sh, every binary path flash_files names, and digest.bin exactly when
\* security.secure_boot is true.
C6_EveryReferencedBinary ==
    pc = "done" =>
        /\ {"flasher_args.json", "flash.sh"} \subseteq MemberNames
        /\ Values(flash_data.flash_files) \subseteq MemberNames
        /\ "digest.bin" \in MemberNames <=> flash_data.security.secure_boot

\* C6 amended: after a successful run the archive holds flasher_args.json,
\* flash.sh, every binary path flash_files names that exists in the build
\* directory (the injected bootloader/bootloader.bin among them) and none that
\* does not, and digest.bin exactly when security.secure_boot is true.
C6_EveryExistingBinary ==
    pc = "done" =>
        /\ {"flasher_args.json", "flash.sh"} \subseteq MemberNames
        /\ \A path \in Values(flash_data.flash_files) :
              path \in MemberNames <=> path \in fs.binaries
        /\ flash_data.security.secure_boot =>
              "bootloader/bootloader.bin" \in Values(flash_data.flash_files)
        /\ "digest.bin" \in MemberNames <=> flash_data.security.secure_boot

C6_Witness ==
    /\ pc = "done"
    /\ flash_data.security.secure_boot
    /\ "bootloader/bootloader.bin" \in fs.binaries
    /\ "app.bin" \notin fs.binaries
    /\ MemberNames = {"flasher_args.json", "flash.sh", "digest.bin",
                      "bootloader/bootloader.bin", "partition_table/partition-table.bin"}

====
